---- MODULE Spec2Model ----
(***************************************************************************)
(* The incremental prime sieve of src/lib.rs: Sieve<I, U> holds a          *)
(* HashMap `composite` (future composite -> prime that will mark it) and a *)
(* candidate iterator `iter` (2.. or 2..=upper).  Iterator::next draws     *)
(* candidates until one is not a key of the map.                           *)
(*                                                                         *)
(* One call of next() is modelled by its control points:                   *)
(*   idle --Call--> loop --Draw*--> idle | collide | panicked              *)
(*   collide --CollideStep*--> collide --CollideInsert--> loop             *)
(* The index type I is an unsigned integer of `bits` bits.  Arithmetic     *)
(* that leaves the range panics when the build has overflow checks and     *)
(* wraps modulo 2^bits when it has not.                                    *)
(***************************************************************************)
EXTENDS Integers, Sequences, FiniteSets, TLC

\* ------------------------------------------------------------- bounds
\* Largest `upper` given to bounded() under Spec.
MaxUpper == 100
\* Largest candidate the unbounded sieve draws under Spec.
MaxCand == 541
\* Width of the narrow index type of SpecNarrow.
NarrowBits == 6

\* Width of the index type of Spec.  The crate's examples use u32 and u64,
\* which TLC's integers cannot hold; Spec draws no candidate whose square
\* leaves this narrower type, as the examples draw none whose square
\* leaves u32.
IndexBits == 20

\* ---------------------------------------------------- program constants
\* Both ranges start at 2.into().
RangeStart == 2

VARIABLES
    bits,       \* width of the index type I
    checks,     \* TRUE: the build panics on overflow; FALSE: it wraps
    mode,       \* "infinite" (RangeFrom) or "bounded" (RangeInclusive)
    upper,      \* the argument of bounded(); 0 for infinite()
    start,      \* iter.start: the next candidate
    end,        \* iter.end of the RangeInclusive (unused by RangeFrom)
    exhausted,  \* iter.exhausted of the RangeInclusive
    composite,  \* the HashMap, a function key -> value
    pc,         \* control point of next()
    n,          \* the candidate drawn last
    value,      \* the prime taken out of the map for n
    key,        \* the key the collision loop is trying
    result,     \* what the last completed next() returned
    emitted,    \* history: the values returned so far, in order
    size0,      \* history: size() when the running call started
    map0,       \* history: the map when the last candidate was drawn
    overflowed  \* history: some arithmetic result left the range of I

vars == <<bits, checks, mode, upper, start, end, exhausted, composite, pc, n, value,
          key, result, emitted, size0, map0, overflowed>>

\* ------------------------------------------------------- the index type
Pow2(b) == 2 ^ b

MaxVal == Pow2(bits) - 1

\* The value an arithmetic result takes in I when the build wraps.
Wrap(r) == r % Pow2(bits)

Overflows(r) == r > MaxVal

\* ------------------------------------------------------------ Option<I>
None == [kind |-> "None", val |-> 0]

Some(v) == [kind |-> "Some", val |-> v]

\* No call has returned yet.
Unset == [kind |-> "Unset", val |-> 0]

\* ------------------------------------------------------------ HashMap
EmptyMap == [k \in {} |-> 0]

ContainsKey(m, k) == k \in DOMAIN m

\* Faulty variant: the entry of the candidate is left in the map.
RemoveNothing(m, k) == m

Remove(m, k) == [j \in DOMAIN m \ {k} |-> m[j]]

\* Faulty variant: key and value given in the wrong order.
InsertSwapped(m, k, v) ==
    [j \in DOMAIN m \cup {v} |-> IF j = v THEN k ELSE m[j]]

\* HashMap::insert replaces the value of a key that is present.
Insert(m, k, v) == [j \in DOMAIN m \cup {k} |-> IF j = k THEN v ELSE m[j]]

Size(m) == Cardinality(DOMAIN m)

size == Size(composite)

\* ------------------------------------------------- arithmetic of next()
\* Faulty variant: one factor too many.
Cube(c) == c * c * c

\* Faulty variant: the first key is twice the prime.
Double(c) == c + c

\* n * n, the first key of a new prime.
Square(c) == c * c

\* Faulty variant: the loop starts at the candidate itself.
FirstKeySame(c, v) == c

\* let mut key = n + value
FirstKey(c, v) == c + v

\* Faulty variant: the loop steps by one instead of by the prime.
NextKeyPlusOne(k, v) == k + 1

\* Faulty variant: the loop does not move the key.
NextKeyStuck(k, v) == k

\* Faulty variant: the loop steps by twice the prime.
NextKeyDouble(k, v) == k + v + v

\* key = key + value
NextKey(k, v) == k + v

\* Faulty variant: the range does not move.
ForwardStuck(s) == s

\* Step::forward(start, 1) of the range.
Forward(s) == s + 1

\* ------------------------------------------------------ the two ranges
\* Faulty variant: the exclusive range 2.into()..upper.
RangeEndExclusive(u) == u - 1

\* 2.into()..=upper
RangeEnd(u) == u

\* Faulty variant: emptiness decided by the exhausted flag alone.
IsEmptyByFlag == mode = "bounded" /\ exhausted

\* RangeInclusive::is_empty; a RangeFrom is never empty.
IsEmpty == mode = "bounded" /\ (exhausted \/ start > end)

\* RangeInclusive::next moves start only while start < end and otherwise
\* sets exhausted; RangeFrom::next always moves start.
Iterating == mode = "infinite" \/ start < end

\* Iterator::size_hint of the sieve is that of its range: a RangeInclusive
\* reports the exact number of candidates left as both bounds, a RangeFrom
\* reports (usize::MAX, None).
size_hint ==
    IF mode = "infinite" THEN [lo |-> "usize::MAX", hi |-> None]
    ELSE IF IsEmpty THEN [lo |-> 0, hi |-> Some(0)]
    ELSE [lo |-> end - start + 1, hi |-> Some(end - start + 1)]

\* ------------------------------------------------------------- Init
InitWith(b, uppers) ==
    /\ bits = b
    /\ checks \in BOOLEAN
    /\ \/ mode = "infinite" /\ upper = 0 /\ end = 0
       \/ mode = "bounded" /\ upper \in uppers /\ end = RangeEnd(upper)
    /\ start = RangeStart
    /\ exhausted = FALSE
    /\ composite = EmptyMap
    /\ pc = "idle"
    /\ n = 0
    /\ value = 0
    /\ key = 0
    /\ result = Unset
    /\ emitted = <<>>
    /\ size0 = 0
    /\ map0 = EmptyMap
    /\ overflowed = FALSE

Init == InitWith(IndexBits, 0..MaxUpper)

InitNarrow == InitWith(NarrowBits, 0..(Pow2(NarrowBits) - 1))

\* ------------------------------------------------------------- actions
\* The caller invokes next().
Call ==
    /\ pc = "idle"
    /\ pc' = "loop"
    /\ size0' = size
    /\ UNCHANGED <<bits, checks, mode, upper, start, end, exhausted, composite, n,
                   value, key, result, emitted, map0, overflowed>>

\* Faulty variant: the exhausted range starts over when it reports its end.
DrawNoneRestarts ==
    /\ pc = "loop"
    /\ mode = "bounded" /\ (exhausted \/ start > end)
    /\ pc' = "idle"
    /\ result' = None
    /\ start' = RangeStart
    /\ exhausted' = FALSE
    /\ UNCHANGED <<bits, checks, mode, upper, end, composite, n,
                   value, key, emitted, size0, map0, overflowed>>

\* for n in self.iter.by_ref(): the range is exhausted, next() returns None.
DrawNone ==
    /\ pc = "loop"
    /\ IsEmpty
    /\ pc' = "idle"
    /\ result' = None
    /\ UNCHANGED <<bits, checks, mode, upper, start, end, exhausted, composite, n,
                   value, key, emitted, size0, map0, overflowed>>

\* The unbounded sieve is explored up to MaxCand, and not past the point
\* where its RangeFrom has wrapped round to 0.
InModel == mode = "infinite" => (start >= RangeStart /\ start <= MaxCand)

\* The range hands out `start`.  Computing the successor of the largest
\* value of I overflows in a RangeFrom: the call panics before the item is
\* handed out when the build checks, and the range wraps when it does not.
StepOverflows == Iterating /\ Overflows(Forward(start))

IterAdvance ==
    /\ IF Iterating
         THEN start' = Wrap(Forward(start)) /\ exhausted' = exhausted
         ELSE start' = start /\ exhausted' = TRUE

\* The candidate is a key of the map: take its entry out and start the
\* collision loop at n + value.
DrawComposite ==
    /\ pc = "loop"
    /\ ~IsEmpty
    /\ InModel
    /\ ContainsKey(composite, start)
    /\ IF StepOverflows /\ checks
         THEN /\ pc' = "panicked"
              /\ overflowed' = TRUE
              /\ UNCHANGED <<start, exhausted, n, value, composite, key>>
         ELSE /\ IterAdvance
              /\ n' = start
              /\ value' = composite[start]
              /\ composite' = Remove(composite, start)
              /\ LET r == FirstKey(start, composite[start]) IN
                   /\ key' = Wrap(r)
                   /\ overflowed' = (overflowed \/ StepOverflows \/ Overflows(r))
                   /\ pc' = IF Overflows(r) /\ checks THEN "panicked" ELSE "collide"
    /\ map0' = IF StepOverflows /\ checks THEN map0 ELSE composite
    /\ UNCHANGED <<bits, checks, mode, upper, end, result, emitted, size0>>

\* The candidate is no key of the map: it is a prime.
DrawPrime ==
    /\ pc = "loop"
    /\ ~IsEmpty
    /\ InModel
    /\ ~ContainsKey(composite, start)
    /\ IF StepOverflows /\ checks
         THEN /\ pc' = "panicked"
              /\ overflowed' = TRUE
              /\ UNCHANGED <<start, exhausted, n, composite, result, emitted>>
         ELSE /\ IterAdvance
              /\ n' = start
              /\ LET r == Square(start) IN
                   /\ overflowed' = (overflowed \/ StepOverflows \/ Overflows(r))
                   /\ IF Overflows(r) /\ checks
                        THEN /\ pc' = "panicked"
                             /\ UNCHANGED <<composite, result, emitted>>
                        ELSE /\ composite' = Insert(composite, Wrap(r), start)
                             /\ result' = Some(start)
                             /\ emitted' = Append(emitted, start)
                             /\ pc' = "idle"
    /\ map0' = IF StepOverflows /\ checks THEN map0 ELSE composite
    /\ UNCHANGED <<bits, checks, mode, upper, end, value, key, size0>>

\* while self.composite.contains_key(&key) { key = key + value; }
CollideStep ==
    /\ pc = "collide"
    /\ ContainsKey(composite, key)
    /\ LET r == NextKey(key, value) IN
         /\ key' = Wrap(r)
         /\ overflowed' = (overflowed \/ Overflows(r))
         /\ pc' = IF Overflows(r) /\ checks THEN "panicked" ELSE "collide"
    /\ UNCHANGED <<bits, checks, mode, upper, start, end, exhausted, composite, n,
                   value, result, emitted, size0, map0>>

\* Faulty variant: the insert does not wait for the loop to find a free key.
CollideInsertUnguarded ==
    /\ pc = "collide"
    /\ composite' = [j \in DOMAIN composite \cup {key} |->
                        IF j = key THEN value ELSE composite[j]]
    /\ pc' = "loop"
    /\ UNCHANGED <<bits, checks, mode, upper, start, end, exhausted, n, value, key,
                   result, emitted, size0, map0, overflowed>>

\* self.composite.insert(key, value); then the next candidate.
CollideInsert ==
    /\ pc = "collide"
    /\ ~ContainsKey(composite, key)
    /\ composite' = Insert(composite, key, value)
    /\ pc' = "loop"
    /\ UNCHANGED <<bits, checks, mode, upper, start, end, exhausted, n, value, key,
                   result, emitted, size0, map0, overflowed>>

Next ==
    \/ Call
    \/ DrawNone
    \/ DrawComposite
    \/ DrawPrime
    \/ CollideStep
    \/ CollideInsert

Spec == Init /\ [][Next]_vars

\* The same sieve over an index type so narrow that squares leave it.
SpecNarrow == InitNarrow /\ [][Next]_vars

\* next() is synchronous code that runs to its return, and the caller keeps
\* calling it: a step that is possible is eventually taken.
FairSpec == Init /\ [][Next]_vars /\ WF_vars(Next)

\* ------------------------------------------------- trial-division oracle
RECURSIVE NoDivisorFrom(_, _)
NoDivisorFrom(x, d) ==
    IF d * d > x THEN TRUE
    ELSE IF x % d = 0 THEN FALSE
    ELSE NoDivisorFrom(x, d + 1)

IsPrime(x) == x >= 2 /\ NoDivisorFrom(x, 2)

RECURSIVE NextPrimeAfter(_)
NextPrimeAfter(x) == IF IsPrime(x + 1) THEN x + 1 ELSE NextPrimeAfter(x + 1)

\* The first k primes, in increasing order.
RECURSIVE FirstPrimes(_)
FirstPrimes(k) ==
    IF k = 0 THEN <<>>
    ELSE LET s == FirstPrimes(k - 1) IN
         Append(s, NextPrimeAfter(IF k = 1 THEN 1 ELSE s[k - 1]))

\* The number of primes p with 2 <= p <= x.
PrimeCount(x) == Cardinality({p \in 2..x : IsPrime(p)})

EmittedSet == {emitted[i] : i \in 1..Len(emitted)}

Last(s) == s[Len(s)]

\* ------------------------------------------------------------ claims

\* C1: the first k values returned by the unbounded sieve are the first k
\* primes in increasing order, for every k.
C1_InfiniteYieldsFirstPrimes ==
    mode = "infinite" => emitted = FirstPrimes(Len(emitted))

\* The unbounded sieve has returned its 100th value, 541.
C1_Witness ==
    /\ mode = "infinite"
    /\ pc = "idle"
    /\ Len(emitted) = 100
    /\ result = Some(541)

C3_StrictlyIncreasing ==
    \A i \in 1..Len(emitted) : \A j \in 1..Len(emitted) :
        i < j => emitted[i] < emitted[j]

\* bounded(31) has returned ten values and more.
C3_Witness ==
    /\ Len(emitted) >= 10
    /\ pc = "idle"
    /\ mode = "bounded"
    /\ upper = 31

\* C4: bounded(upper) with upper < 2 returns None on the first call, returns
\* no value, and leaves the map empty.
C4_BelowTwoYieldsNothing ==
    (mode = "bounded" /\ upper < RangeStart) =>
        /\ emitted = <<>>
        /\ composite = EmptyMap
        /\ result \in {Unset, None}
        /\ n = 0

\* bounded(1) has been called once and returned None.
C4_Witness ==
    /\ mode = "bounded"
    /\ upper = 1
    /\ pc = "idle"
    /\ result = None
    /\ size = 0

\* C5: between calls the map holds one entry per value returned so far: its
\* values are the returned primes, each once, so size() is their number.
C5_OneEntryPerPrime ==
    pc = "idle" =>
        /\ {composite[k] : k \in DOMAIN composite} = EmittedSet
        /\ size = Len(emitted)

\* Twenty primes returned, twenty entries.
C5_Witness ==
    /\ pc = "idle"
    /\ Len(emitted) = 20
    /\ size = 20

\* C6: across a call size() never decreases: a call that returns a prime
\* leaves it one larger, a call that returns None leaves it as it was, also
\* when that call consumed composite candidates.
C6_SizeAcrossCall ==
    pc = "idle" =>
        /\ result.kind = "Some" => size = size0 + 1
        /\ result.kind = "None" => size = size0
        /\ result.kind = "Unset" => size = 0

\* A call consumed the composites after the last prime and returned None.
C6_Witness ==
    /\ pc = "idle"
    /\ result = None
    /\ Len(emitted) >= 4
    /\ n > Last(emitted)
    /\ size = size0
    /\ size = Len(emitted)

\* C7: every value returned by bounded(upper) is strictly less than upper.
C7_StrictlyBelowUpper ==
    mode = "bounded" => \A i \in 1..Len(emitted) : emitted[i] < upper

\* C8: on bounded(B) every call of next() returns and the calls eventually
\* return None; the unbounded sieve never returns None.
C8_BoundedExhausts ==
    /\ (mode = "bounded") => <>(pc = "idle" /\ result = None)
    /\ (mode = "bounded" /\ pc # "idle") ~> (pc = "idle")
    /\ [](mode = "infinite" => result # None)
    /\ [](mode = "bounded" => n <= upper)

\* bounded(B) has run through collisions to its None.
C8_Witness ==
    /\ mode = "bounded"
    /\ upper >= 30
    /\ pc = "idle"
    /\ result = None
    /\ n = upper

C10_SmallestEmittedDivisor ==
    \A k \in DOMAIN composite :
        /\ composite[k] \in EmittedSet
        /\ k % composite[k] = 0
        /\ \A q \in EmittedSet : q < composite[k] => k % q # 0

\* C10: the value of every entry is a returned prime that divides its key.
C10_EmittedPrimeDivides ==
    \A k \in DOMAIN composite :
        /\ composite[k] \in EmittedSet
        /\ IsPrime(composite[k])
        /\ k % composite[k] = 0

\* An entry whose value is not the smallest returned prime dividing its key.
C10_Witness ==
    \E k \in DOMAIN composite : \E q \in EmittedSet :
        q < composite[k] /\ k % q = 0

\* C11: between calls and after every candidate is processed, every key of
\* the map is at or above the candidate cursor and strictly above the last
\* candidate drawn.
C11_KeysAheadOfCursor ==
    pc \in {"idle", "loop"} =>
        \A k \in DOMAIN composite : k > n /\ k >= start

\* A composite has been processed and a key sits exactly at the cursor.
C11_Witness ==
    /\ pc = "loop"
    /\ n >= 10
    /\ start = n + 1
    /\ ContainsKey(composite, start)
    /\ ~ContainsKey(map0, key)

\* C12 as claimed: a key the collision loop steps past is held by a prime
\* smaller than the prime being moved.
C12_OccupantIsSmaller ==
    (pc = "collide" /\ ContainsKey(composite, key)) => composite[key] < value

\* C12: a key the collision loop steps past is held by another returned
\* prime, smaller or larger than the prime being moved, and is a multiple of
\* both.
C12_OccupantIsAnotherPrime ==
    (pc = "collide" /\ ContainsKey(composite, key)) =>
        /\ composite[key] # value
        /\ composite[key] \in EmittedSet
        /\ value \in EmittedSet
        /\ key % composite[key] = 0
        /\ key % value = 0

\* The loop is about to step past a key held by a larger prime.
C12_Witness ==
    /\ pc = "collide"
    /\ ContainsKey(composite, key)
    /\ composite[key] > value

\* The loop is about to step past a key held by a smaller prime.
C12_SmallerOccupantReached ==
    /\ pc = "collide"
    /\ ContainsKey(composite, key)
    /\ composite[key] < value

\* The smallest j >= 1 for which c + j*p is no key of m.
MinFree(m, c, p) ==
    CHOOSE j \in 1..(Size(m) + 1) :
        /\ ~ContainsKey(m, c + j * p)
        /\ \A i \in 1..(j - 1) : ContainsKey(m, c + i * p)

\* C13: processing a candidate n found in the map with value p removes the
\* entry of n and inserts n + j*p -> p for the smallest j >= 1 whose key is
\* free; every other entry stays as it was and nothing is returned for n.
C13_RescheduleToFirstFreeMultiple ==
    [][(pc = "collide" /\ pc' = "loop") =>
          /\ ContainsKey(map0, n)
          /\ LET p == map0[n] IN
               composite' = Insert(Remove(map0, n), n + MinFree(map0, n, p) * p, p)
          /\ ~ContainsKey(composite', n)
          /\ \A k \in DOMAIN map0 \ {n} :
                 ContainsKey(composite', k) /\ composite'[k] = map0[k]
          /\ Size(composite') = Size(map0)
          /\ emitted' = emitted
          /\ result' = result
          /\ n \notin EmittedSet]_vars

\* A composite was rescheduled past two occupied multiples.
C13_Witness ==
    /\ pc = "loop"
    /\ ContainsKey(map0, n)
    /\ ContainsKey(map0, n + map0[n])
    /\ ContainsKey(map0, n + 2 * map0[n])
    /\ ContainsKey(composite, key)
    /\ composite[key] = map0[n]
    /\ key >= n + 3 * map0[n]

\* C14: the value p of every entry is a returned prime that divides the key
\* k, and k >= p*p (p >= 2 is then a proper divisor: k is composite); so a
\* candidate found in the map is never a prime and a candidate not found in
\* it is never composite.
C14_EntriesAreComposite ==
    /\ \A k \in DOMAIN composite :
          LET p == composite[k] IN
            /\ p \in EmittedSet
            /\ k % p = 0
            /\ k >= p * p
            /\ p >= 2
    /\ pc = "collide" => (ContainsKey(map0, n) /\ ~IsPrime(n))
    /\ \A i \in 1..Len(emitted) : IsPrime(emitted[i])
    /\ pc = "idle" /\ result.kind = "Some" =>
          (~ContainsKey(map0, n) /\ IsPrime(n) /\ n = result.val)

\* A candidate was found in the map, and one was not.
C14_Witness ==
    /\ pc = "collide"
    /\ n = 35
    /\ value = 5
    /\ ContainsKey(map0, n)
    /\ Last(emitted) = 31

\* C15: when next() returns a prime n, the key n*n is not in the map at the
\* insert, so the insert overwrites no entry.
C15_SquareKeyIsFree ==
    [][(emitted' # emitted) =>
          /\ n' = Last(emitted')
          /\ ~ContainsKey(composite, n' * n')
          /\ ContainsKey(composite', n' * n')
          /\ composite'[n' * n'] = n'
          /\ \A k \in DOMAIN composite :
                 ContainsKey(composite', k) /\ composite'[k] = composite[k]]_vars

\* A prime was returned while the map held entries of many primes.
C15_Witness ==
    /\ pc = "idle"
    /\ result = Some(97)
    /\ ContainsKey(composite, 97 * 97)
    /\ ~ContainsKey(map0, 97 * 97)
    /\ Size(map0) = 24

\* C16: once next() on a bounded sieve has returned None, every later call
\* returns None and leaves the map and the candidate cursor as they were.
C16_ExhaustionIsSticky ==
    [][(mode = "bounded" /\ result = None) =>
          /\ result' = None
          /\ composite' = composite
          /\ start' = start
          /\ exhausted' = exhausted
          /\ emitted' = emitted
          /\ pc' \in {"idle", "loop"}]_vars

\* None was returned and a later call is running on the exhausted range.
C16_Witness ==
    /\ mode = "bounded"
    /\ result = None
    /\ pc = "loop"
    /\ exhausted
    /\ Len(emitted) >= 4

\* The number of primes a bounded sieve has still to return.
PrimesRemaining == PrimeCount(upper) - Len(emitted)

\* C17: between calls on a bounded sieve the bounds of size_hint() bracket
\* the number of primes still to be returned: the lower bound is not above
\* it and the upper bound is not below it.
C17_SizeHintBrackets ==
    (mode = "bounded" /\ pc = "idle") =>
        /\ size_hint.lo <= PrimesRemaining
        /\ size_hint.hi.kind = "Some"
        /\ size_hint.hi.val >= PrimesRemaining

\* The upper bound of size_hint() alone is never below that number.
C17_UpperBoundHolds ==
    (mode = "bounded" /\ pc = "idle") =>
        /\ size_hint.hi.kind = "Some"
        /\ size_hint.hi.val >= PrimesRemaining

====
